---- MODULE Spec2Model ----
(***************************************************************************)
(* State-machine model of the ECG heart-rate analyser (src/ecg_analyzer.py) *)
(*                                                                         *)
(* Numbers.  The Python code computes in IEEE doubles.  The model computes  *)
(* the same quantities exactly: a heart rate, a time or an average is a     *)
(* reduced fraction <<n, d>> with d > 0, NaN is the pair <<0, 0>>; a        *)
(* comparison against mean + k*std is decided exactly through an integer    *)
(* square root.  Peak indices are 0-based as in Python; sequences are TLA+  *)
(* sequences, so element i of a Python array x is x[i + 1].                 *)
(***************************************************************************)
EXTENDS Integers, Sequences, FiniteSets, TLC

VARIABLES
    pc,               \* position in the call being modelled
    ecg_signal,       \* analyze_ecg / detect_r_peaks argument (raw samples)
    sampling_rate,    \* argument, Hz
    lead_off_mask,    \* analyze_ecg: ecg_signal == 0
    working_signal,   \* detect_r_peaks: copy with NaN where not valid
    smoothed,         \* detect_r_peaks: moving average, scaled by SmoothScale
    attempts,         \* number of find_peaks calls made by detect_r_peaks
    candidates,       \* detect_r_peaks: peaks returned by find_peaks
    refined_peaks,    \* detect_r_peaks: peaks after the refinement loop
    peaks,            \* peak set (result of detect_r_peaks / argument)
    valid_intervals,  \* calculate_heart_rate: boolean mask over RR intervals
    inst_rates,       \* calculate_heart_rate: heart_rates before smoothing
    inst_times,       \* calculate_heart_rate: times before smoothing
    heart_rates,      \* returned rate series
    times,            \* returned time series
    valid_rates,      \* calculate_average_heart_rate: entries in [40, 200]
    avg_hr,           \* returned average
    window_size,      \* argument of analyze_ecg / calculate_heart_rate
    rows,             \* load_ecg_from_csv: the records after the header row
    arg_sampling_rate,       \* __main__: args.sampling_rate (may be None)
    duration,         \* load_ecg_from_csv: argument, seconds
    row_index,        \* load_ecg_from_csv: records consumed by the reader
    t_loaded,         \* load_ecg_from_csv: the list t, times loaded so far
    ecg_loaded,       \* load_ecg_from_csv: the list ecg, samples loaded so far
    estimated_sampling_rate, \* load_ecg_from_csv: returned sampling rate
    error,            \* the exception that ended the load, "" if none
    tie_log,          \* the orders np.argsort gave equal heights in this call
    call_kind,        \* which call of analyze_ecg a caller is making
    first_call,       \* what the caller keeps of its first call
    primary_peaks,    \* separate: peaks of the larger-amplitude source
    secondary_peaks,  \* separate: peaks detected for the smaller source
    min_gap_samples,  \* separate: the minimum gap, in samples
    separated,        \* separate: the returned pair, <<>> before the call
    tool,             \* capture: "client" (capture_ecg_data) or "esp"
    capture_duration, \* capture: argument duration, in clock ticks
    port,             \* capture: the serial port ser
    closes,           \* capture: number of ser.close() calls made
    lines_read,       \* capture: lines the device has delivered so far
    line,             \* capture: the line read last
    elapsed,          \* capture: time.time() - start_time, in clock ticks
    data,             \* capture: the list data
    stopped_by,       \* capture: what ended the read loop
    pending,          \* capture: the exception the finally clause re-raises
    saved,            \* capture: outcome of the save step
    csv_file,         \* capture: rows of the output file, <<>> if not written
    result            \* capture: returned value or escaping exception

vars == <<pc, ecg_signal, sampling_rate, lead_off_mask, working_signal,
          smoothed, attempts, candidates, refined_peaks, peaks,
          valid_intervals, inst_rates, inst_times, heart_rates, times,
          valid_rates, avg_hr, window_size, rows, arg_sampling_rate, duration,
          row_index, t_loaded, ecg_loaded, estimated_sampling_rate, error,
          tie_log, call_kind, first_call, primary_peaks, secondary_peaks,
          min_gap_samples, separated, tool, capture_duration, port, closes,
          lines_read, line, elapsed, data, stopped_by, pending, saved,
          csv_file, result>>

\* what the caller supplies, and what load_ecg_from_csv builds
input_vars == <<window_size, rows, arg_sampling_rate, duration>>

load_vars == <<row_index, t_loaded, ecg_loaded, estimated_sampling_rate, error>>

\* what a caller that calls analyze_ecg more than once keeps between calls
call_vars == <<call_kind, first_call>>

\* the source separator's arguments and result
sep_vars == <<primary_peaks, secondary_peaks, min_gap_samples, separated>>

\* the capture tools' arguments, locals, output file and result
capture_vars == <<tool, capture_duration, port, closes, lines_read, line,
                  elapsed, data, stopped_by, pending, saved, csv_file, result>>


(***************************************************************************)
(* Exact arithmetic helpers                                                 *)
(***************************************************************************)
Abs(x) == IF x < 0 THEN -x ELSE x

Max2(a, b) == IF a >= b THEN a ELSE b

Min2(a, b) == IF a <= b THEN a ELSE b

RECURSIVE GCD(_, _)
GCD(a, b) == IF b = 0 THEN a ELSE GCD(b, a % b)

\* the fraction n/d (d > 0) in lowest terms
Rat(n, d) ==
    LET g == GCD(Abs(n), d)
    IN  <<n \div g, d \div g>>

NaNRat == <<0, 0>>

ZeroRat == <<0, 1>>

IsNaN(a) == a[2] = 0

\* comparisons are false when an operand is NaN, as in IEEE arithmetic
RatGe(a, b) == ~IsNaN(a) /\ ~IsNaN(b) /\ a[1] * b[2] >= b[1] * a[2]

RatLe(a, b) == ~IsNaN(a) /\ ~IsNaN(b) /\ a[1] * b[2] <= b[1] * a[2]

RatAdd(a, b) ==
    IF IsNaN(a) \/ IsNaN(b) THEN NaNRat
    ELSE Rat(a[1] * b[2] + b[1] * a[2], a[2] * b[2])

RatDivInt(a, k) == IF IsNaN(a) \/ k = 0 THEN NaNRat ELSE Rat(a[1], a[2] * k)

RECURSIVE RatSum(_)
RatSum(s) == IF s = <<>> THEN ZeroRat ELSE RatAdd(s[1], RatSum(Tail(s)))

\* s[mask]: the entries of s selected by a boolean mask of the same length
RECURSIVE Compress(_, _)
Compress(s, mask) ==
    IF s = <<>> THEN <<>>
    ELSE (IF mask[1] THEN <<s[1]>> ELSE <<>>) \o Compress(Tail(s), Tail(mask))

(***************************************************************************)
(* calculate_heart_rate                                                     *)
(***************************************************************************)
\* np.diff(peaks), in samples; rr_intervals[i] is RRSamples(peaks)[i] / sampling_rate
RRSamples(pk) == [i \in 1..(Len(pk) - 1) |-> pk[i + 1] - pk[i]]

\* a variant that forgets the upper limit of the RR interval
PlausibleInterval_NoUpper(d, sr) == d * 100 >= 33 * sr

\* (rr >= 0.33) & (rr <= 1.5) for rr = d / sr
PlausibleInterval(d, sr) == d * 100 >= 33 * sr /\ d * 2 <= 3 * sr

\* np.abs(rr[i] - rr[i-1]) / rr[i-1] <= 0.5  (a division by 0 gives inf or NaN)
ChangeOk(dprev, d) == dprev # 0 /\ Abs(d - dprev) * 2 <= Abs(dprev)

\* the mask valid_intervals after the optional sudden-change check
ValidIntervals(pk, sr) ==
    LET d == RRSamples(pk)
    IN  [i \in 1..Len(d) |->
            /\ PlausibleInterval(d[i], sr)
            /\ (Len(d) > 2 /\ i > 1) => ChangeOk(d[i - 1], d[i])]

\* heart_rates = 60 / rr_intervals, over the kept intervals
InstantRates(pk, sr, mask) ==
    LET d == Compress(RRSamples(pk), mask)
    IN  [k \in 1..Len(d) |-> Rat(60 * sr, d[k])]

\* a variant that pairs each rate with the earlier peak: peaks[:-1]
InstantTimes_EarlierPeak(pk, sr, mask) ==
    LET vp == Compress(SubSeq(pk, 1, Len(pk) - 1), mask)
    IN  [k \in 1..Len(vp) |-> Rat(vp[k], sr)]

\* times = peaks[1:][valid_intervals] / sampling_rate
InstantTimes(pk, sr, mask) ==
    LET vp == Compress(Tail(pk), mask)
    IN  [k \in 1..Len(vp) |-> Rat(vp[k], sr)]

\* np.convolve(heart_rates, np.ones(3)/3, mode='valid')
MovingAverage3(r) ==
    [k \in 1..(Len(r) - 2) |-> RatDivInt(RatSum(<<r[k], r[k + 1], r[k + 2]>>), 3)]

\* times[1:-1]
TrimTimes(t) == SubSeq(t, 2, Len(t) - 1)

\* the whole function: the locals it has built when it returns
CalcHeartRate(pk, sr, window_size_arg) ==
    IF Len(pk) < 2
    THEN [mask |-> <<>>, irates |-> <<>>, itimes |-> <<>>,
          rates |-> <<>>, times |-> <<>>]
    ELSE LET mask == ValidIntervals(pk, sr)
             r    == InstantRates(pk, sr, mask)
             t    == InstantTimes(pk, sr, mask)
         IN  IF Len(r) < 2
             THEN [mask |-> mask, irates |-> <<>>, itimes |-> <<>>,
                   rates |-> <<>>, times |-> <<>>]
             ELSE IF Len(r) > 3
             THEN [mask |-> mask, irates |-> r, itimes |-> t,
                   rates |-> MovingAverage3(r), times |-> TrimTimes(t)]
             ELSE [mask |-> mask, irates |-> r, itimes |-> t,
                   rates |-> r, times |-> t]

(***************************************************************************)
(* calculate_average_heart_rate                                             *)
(***************************************************************************)
\* a variant with exclusive limits
ValidRates_Strict(r) ==
    Compress(r, [k \in 1..Len(r) |->
        ~RatLe(r[k], <<40, 1>>) /\ ~RatGe(r[k], <<200, 1>>) /\ ~IsNaN(r[k])])

\* heart_rates[(heart_rates >= 40) & (heart_rates <= 200)]
ValidRates(r) ==
    Compress(r, [k \in 1..Len(r) |-> RatGe(r[k], <<40, 1>>) /\ RatLe(r[k], <<200, 1>>)])

\* a variant without the two empty-array guards: the mean of nothing is NaN
CalcAverage_NoGuard(r) == RatDivInt(RatSum(ValidRates(r)), Len(ValidRates(r)))

CalcAverage(r) ==
    IF Len(r) = 0 THEN ZeroRat
    ELSE IF Len(ValidRates(r)) = 0 THEN ZeroRat
    ELSE RatDivInt(RatSum(ValidRates(r)), Len(ValidRates(r)))

(***************************************************************************)
(* detect_r_peaks: masking and smoothing                                    *)
(***************************************************************************)
\* the value standing for np.nan in a signal array; no sample takes it
NaN == -1000000

\* 0-based element access, as in the Python code
At(x, i) == x[i + 1]

\* comparisons with NaN are false
Lt(a, b) == a # NaN /\ b # NaN /\ a < b

Le(a, b) == a # NaN /\ b # NaN /\ a <= b

RECURSIVE SumSeq(_)
SumSeq(s) == IF s = <<>> THEN 0 ELSE s[1] + SumSeq(Tail(s))

NotNaN(s) == SelectSeq(s, LAMBDA v : v # NaN)

\* valid_mask = ecg_signal > 0
ValidMask(sig) == [i \in 1..Len(sig) |-> sig[i] > 0]

\* working_signal = np.copy(ecg_signal); working_signal[~valid_mask] = np.nan
WorkingSignal(sig) ==
    LET valid_mask == ValidMask(sig)
    IN  [i \in 1..Len(sig) |-> IF valid_mask[i] THEN sig[i] ELSE NaN]

\* window_size = int(0.02 * sampling_rate), made odd
WindowSize(sr) ==
    LET w == (2 * sr) \div 100
    IN  IF w % 2 = 0 THEN w + 1 ELSE w

RECURSIVE LcmUpTo(_)
LcmUpTo(w) ==
    IF w <= 1 THEN 1
    ELSE LET l == LcmUpTo(w - 1) IN (l * w) \div GCD(l, w)

\* smoothed values are kept as integers: true value times SmoothScale(sr)
SmoothScale(sr) == LcmUpTo(WindowSize(sr))

\* np.pad(working_signal, (pad, pad), mode='edge')[j], j 0-based
PaddedAt(ws, pad, j) == At(ws, Max2(0, Min2(Len(ws) - 1, j - pad)))

\* np.nanmean(padded_signal[i : i + window_size]), times SmoothScale(sr)
NanMeanWindow(ws, sr, i) ==
    LET w   == WindowSize(sr)
        win == NotNaN([t \in 1..w |-> PaddedAt(ws, w \div 2, i + t - 1)])
    IN  IF win = <<>> THEN NaN
        ELSE (SmoothScale(sr) * SumSeq(win)) \div Len(win)

Smoothed(ws, sr) == [i \in 1..Len(ws) |-> NanMeanWindow(ws, sr, i - 1)]

(***************************************************************************)
(* detect_r_peaks: statistics and thresholds                                *)
(***************************************************************************)
\* min_samples = int(min_distance * sampling_rate), min_distance = 0.4
MinSamples(sr) == (4 * sr) \div 10

\* threshold_factor = 1.5 and prominence_factor = 1.0, as fractions
ThresholdFactor == <<3, 2>>

ProminenceFactor == <<1, 1>>

\* the relaxed attempt: threshold_factor * 0.7, prominence_factor * 0.5
RelaxedThresholdFactor == <<21, 20>>

RelaxedProminenceFactor == <<1, 2>>

RECURSIVE ISqrtB(_, _, _)
ISqrtB(W, lo, hi) ==
    IF lo >= hi THEN lo
    ELSE LET mid == (lo + hi + 1) \div 2
         IN  IF mid * mid <= W THEN ISqrtB(W, mid, hi) ELSE ISqrtB(W, lo, mid - 1)

\* floor of the square root
ISqrt(W) == ISqrtB(W, 0, Min2(W, 46340))

\* a >= c * sqrt(V), decided exactly (c >= 0, V >= 0)
GeMulSqrt(a, c, V) ==
    LET W == c * c * V
        t == ISqrt(W)
    IN  a > t \/ (a = t /\ t * t = W)

\* statistics of valid_data = smoothed[~isnan(smoothed)]:
\* mean = S / n and std = sqrt(V) / n
Stats(x) ==
    LET vd == NotNaN(x)
        S  == SumSeq(vd)
        Q  == SumSeq([i \in 1..Len(vd) |-> vd[i] * vd[i]])
    IN  [n |-> Len(vd), S |-> S, V |-> Len(vd) * Q - S * S]

\* height: peak_threshold <= x[p], peak_threshold = mean + k * std
HeightOk(v, st, k) == GeMulSqrt(k[2] * (st.n * v - st.S), k[1], st.V)

\* prominence: std * f <= prominence
ProminenceOk(prom, st, f) == GeMulSqrt(f[2] * st.n * prom, f[1], st.V)

(***************************************************************************)
(* scipy.signal.find_peaks, as called by detect_r_peaks                     *)
(***************************************************************************)
\* _local_maxima_1d: the look-ahead over a plateau
RECURSIVE PlateauEnd(_, _, _)
PlateauEnd(x, i, ia) ==
    IF ia < Len(x) - 1 /\ At(x, ia) = At(x, i) THEN PlateauEnd(x, i, ia + 1) ELSE ia

\* _local_maxima_1d: midpoints of the local maxima, from sample i on
RECURSIVE LocalMaximaFrom(_, _)
LocalMaximaFrom(x, i) ==
    IF i >= Len(x) - 1 THEN <<>>
    ELSE IF Lt(At(x, i - 1), At(x, i))
    THEN LET ia == PlateauEnd(x, i, i + 1)
         IN  IF Lt(At(x, ia), At(x, i))
             THEN <<(i + ia - 1) \div 2>> \o LocalMaximaFrom(x, ia + 1)
             ELSE LocalMaximaFrom(x, i + 1)
    ELSE LocalMaximaFrom(x, i + 1)

LocalMaxima(x) == LocalMaximaFrom(x, 1)

\* _select_by_peak_distance: peaks are visited from the highest priority
\* down; a kept peak removes every peak closer than the distance.  The
\* order among equal priorities is that of np.argsort, which is not
\* specified: tie is "last" (a stable sort) or "first".
RECURSIVE SelectByDistanceFrom(_, _, _, _, _, _)
SelectByDistanceFrom(pk, x, dist, tie, todo, keep) ==
    IF todo = {} THEN keep
    ELSE LET j == CHOOSE j \in todo : \A k \in todo :
                     \/ At(x, pk[k]) < At(x, pk[j])
                     \/ /\ At(x, pk[k]) = At(x, pk[j])
                        /\ IF tie = "last" THEN k <= j ELSE k >= j
         IN  IF j \notin keep
             THEN SelectByDistanceFrom(pk, x, dist, tie, todo \ {j}, keep)
             ELSE SelectByDistanceFrom(pk, x, dist, tie, todo \ {j},
                      {k \in keep : k = j \/ Abs(pk[k] - pk[j]) >= dist})

SelectByDistance(pk, x, dist, tie) ==
    LET keep == SelectByDistanceFrom(pk, x, dist, tie, DOMAIN pk, DOMAIN pk)
    IN  Compress(pk, [k \in DOMAIN pk |-> k \in keep])

\* _peak_prominences: the lowest sample between the peak and the next
\* higher sample (or NaN, or the end) to the left (dir = -1) or right
RECURSIVE BaseScan(_, _, _, _, _, _)
BaseScan(x, p, dir, i, lo, base) ==
    IF i >= 0 /\ i <= Len(x) - 1 /\ Le(At(x, i), At(x, p))
    THEN IF At(x, i) < lo
         THEN BaseScan(x, p, dir, i + dir, At(x, i), i)
         ELSE BaseScan(x, p, dir, i + dir, lo, base)
    ELSE <<lo, base>>

LeftBase(x, p) == BaseScan(x, p, -1, p, At(x, p), p)

RightBase(x, p) == BaseScan(x, p, 1, p, At(x, p), p)

\* the prominence of peak p with its left and right base
PeakProminence(x, p) ==
    LET l == LeftBase(x, p)
        r == RightBase(x, p)
    IN  [prom |-> At(x, p) - Max2(l[1], r[1]), left |-> l[2], right |-> r[2]]

\* twice a sample, NaN staying NaN
Dbl(v) == IF v = NaN THEN NaN ELSE 2 * v

\* _peak_widths at rel_height 0.5: walk from the peak to the first sample
\* not above the evaluation height h2 / 2, no further than the base
RECURSIVE WidthScan(_, _, _, _, _)
WidthScan(x, h2, dir, i, stop) ==
    IF i # stop /\ Lt(h2, Dbl(At(x, i)))
    THEN WidthScan(x, h2, dir, i + dir, stop)
    ELSE i

\* the width as a fraction <<num, den>>, den > 0; pr is PeakProminence(x, p)
PeakWidth(x, p, pr) ==
    LET h2 == 2 * At(x, p) - pr.prom
        il == WidthScan(x, h2, -1, p, pr.left)
        ir == WidthScan(x, h2, 1, p, pr.right)
        fl == IF Lt(Dbl(At(x, il)), h2)
              THEN <<h2 - 2 * At(x, il), 2 * (At(x, il + 1) - At(x, il))>>
              ELSE <<0, 1>>
        fr == IF Lt(Dbl(At(x, ir)), h2)
              THEN <<h2 - 2 * At(x, ir), 2 * (At(x, ir - 1) - At(x, ir))>>
              ELSE <<0, 1>>
    IN  <<(ir - il) * fl[2] * fr[2] - fl[1] * fr[2] - fr[1] * fl[2], fl[2] * fr[2]>>

\* width = (0.02 * sampling_rate, 0.12 * sampling_rate)
WidthOk(wd, sr) == sr * wd[2] <= 50 * wd[1] /\ 25 * wd[1] <= 3 * sr * wd[2]

\* find_peaks(smoothed, distance, height, prominence, width)
FindPeaks(x, sr, k, f, tie) ==
    LET st == Stats(x)
        p0 == LocalMaxima(x)
        p1 == SelectSeq(p0, LAMBDA p : HeightOk(At(x, p), st, k))
        p2 == SelectByDistance(p1, x, MinSamples(sr), tie)
    IN  SelectSeq(p2, LAMBDA p :
            LET pr == PeakProminence(x, p)
            IN  /\ ProminenceOk(pr.prom, st, f)
                /\ WidthOk(PeakWidth(x, p, pr), sr))

(***************************************************************************)
(* detect_r_peaks: refinement and outlier pass                              *)
(***************************************************************************)
\* a variant with a window of half a second
RefineWindow_HalfSecond(sr) == (5 * sr) \div 10

\* window_size = int(0.05 * sampling_rate)
RefineWindow(sr) == (5 * sr) \div 100

\* start + np.nanargmax(working_signal[start:end]): the first index of the
\* largest value that is not NaN; -1 when the window is all NaN
RECURSIVE NanArgMaxFrom(_, _, _, _)
NanArgMaxFrom(ws, i, last, best) ==
    IF i > last THEN best
    ELSE IF At(ws, i) # NaN /\ (best = -1 \/ At(ws, i) > At(ws, best))
    THEN NanArgMaxFrom(ws, i + 1, last, i)
    ELSE NanArgMaxFrom(ws, i + 1, last, best)

\* a variant that keeps the candidate where the smoothed signal put it
RefineOne_Unrefined(ws, sr, p) == p

\* the body of the refinement loop for one candidate p
RefineOne(ws, sr, p) ==
    LET start == Max2(0, p - RefineWindow(sr))
        end   == Min2(Len(ws), p + RefineWindow(sr) + 1)
    IN  NanArgMaxFrom(ws, start, end - 1, -1)

\* the refinement loop: a peak whose window is all NaN is dropped
RECURSIVE Refine(_, _, _)
Refine(ws, sr, pk) ==
    IF pk = <<>> THEN <<>>
    ELSE (IF RefineOne(ws, sr, pk[1]) = -1 THEN <<>>
          ELSE <<RefineOne(ws, sr, pk[1])>>) \o Refine(ws, sr, Tail(pk))

\* peak_values > (peak_mean - peak_std) for the value v, where
\* peak_mean = S / n and peak_std = sqrt(V) / n over the peak values
AboveOutlierBound(v, n, S, V) ==
    LET a == S - n * v
    IN  a < 0 \/ a * a < V

\* the outlier pass, applied when there are more than 2 peaks
OutlierPass(ws, pk) ==
    IF Len(pk) > 2
    THEN LET pv == [k \in 1..Len(pk) |-> At(ws, pk[k])]
             st == Stats(pv)
         IN  SelectSeq(pk, LAMBDA p : AboveOutlierBound(At(ws, p), st.n, st.S, st.V))
    ELSE pk

(***************************************************************************)
(* analyze_ecg                                                              *)
(***************************************************************************)
\* lead_off_mask = ecg_signal == 0
LeadOffMask(sig) == [i \in 1..Len(sig) |-> sig[i] = 0]

(***************************************************************************)
(* Inputs                                                                   *)
(***************************************************************************)
\* most beats in a generated signal
MaxBeats == 3

\* longest constant signal
MaxConstLen == 5

\* most peaks in a peak set handed to calculate_heart_rate directly
MaxPeaks == 5

\* longest rate series handed to calculate_average_heart_rate directly
MaxRates == 3

SamplingRates == {2, 25, 100}

Flat(len, v) == [i \in 1..len |-> v]

\* the resting level between beats
Rest(len) == Flat(len, 3)

\* beat shapes: a spike, a plateau after a deep Q wave, a broad wave with
\* a late spike, a low spike, a beat with a lead-off sample in it, a spike
\* after a negative sample
BeatShapes ==
    {<<9>>, <<1, 9, 9, 9>>, <<7, 7, 7, 3, 9>>, <<6>>, <<8, 0, 8>>, <<-2, 9>>}

\* rest lengths between beats, around the refractory distance
RestLengths(sr) == {Max2(0, MinSamples(sr) - 3), MinSamples(sr) + 2}

RECURSIVE Concat(_)
Concat(ss) == IF ss = <<>> THEN <<>> ELSE ss[1] \o Concat(Tail(ss))

\* a short rest, then each beat followed by a rest of the given length
BeatSignal(shapes, len) ==
    Rest(2) \o Concat([k \in 1..Len(shapes) |-> shapes[k] \o Rest(len)])

BeatSignals(sr) ==
    {BeatSignal(shapes, len) :
        shapes \in UNION {[1..n -> BeatShapes] : n \in 1..MaxBeats},
        len \in RestLengths(sr)}

ConstLevels == {-2, 0, 3}

ConstSignals == {Flat(n, v) : n \in 1..MaxConstLen, v \in ConstLevels}

\* RR intervals, in samples, around the limits of the plausibility filter
IntervalSamples(sr) ==
    {(33 * sr - 1) \div 100, (33 * sr - 1) \div 100 + 1, sr \div 2,
     (4 * sr) \div 5, sr, (3 * sr) \div 2, (3 * sr) \div 2 + 1}

RECURSIVE PeaksFrom(_, _)
PeaksFrom(first, ds) ==
    IF ds = <<>> THEN <<first>>
    ELSE <<first>> \o PeaksFrom(first + ds[1], Tail(ds))

PeakSets(sr) ==
    {<<>>} \cup
    {PeaksFrom(f, ds) : f \in {0, 7},
        ds \in UNION {[1..n -> IntervalSamples(sr)] : n \in 0..(MaxPeaks - 1)}}

HRSamplingRates == {4, 100}

RateSamples == {<<39, 1>>, <<40, 1>>, <<361, 3>>, <<200, 1>>, <<201, 1>>}

RateSeries == UNION {[1..n -> RateSamples] : n \in 0..MaxRates}

\* window_size=10, the default of analyze_ecg and calculate_heart_rate
DefaultWindowSize == 10

\* the window sizes (seconds) a caller passes
WindowSizes == {5, DefaultWindowSize}

\* args.sampling_rate: None, or the integer given with --sampling-rate
NotGiven == [given |-> FALSE, rate |-> 0]

Given(r) == [given |-> TRUE, rate |-> r]

(***************************************************************************)
(* State machine                                                            *)
(***************************************************************************)
Blank ==
    /\ lead_off_mask = <<>>
    /\ working_signal = <<>>
    /\ smoothed = <<>>
    /\ attempts = 0
    /\ candidates = <<>>
    /\ refined_peaks = <<>>
    /\ valid_intervals = <<>>
    /\ inst_rates = <<>>
    /\ inst_times = <<>>
    /\ times = <<>>
    /\ valid_rates = <<>>
    /\ avg_hr = ZeroRat
    /\ tie_log = <<>>

\* duration=10.0, the default of load_ecg_from_csv and of --duration
DefaultDuration == <<10, 1>>

\* a single call is modelled: the caller keeps nothing
SingleCall ==
    /\ call_kind = "first"
    /\ first_call = [made |-> FALSE]

NotSeparating ==
    /\ primary_peaks = <<>>
    /\ secondary_peaks = <<>>
    /\ min_gap_samples = 0
    /\ separated = <<>>

\* no capture has been started
NotCapturing ==
    /\ tool = "client"
    /\ capture_duration = 0
    /\ port = "unopened"
    /\ closes = 0
    /\ lines_read = 0
    /\ line = ""
    /\ elapsed = 0
    /\ data = <<>>
    /\ stopped_by = ""
    /\ pending = ""
    /\ saved = ""
    /\ csv_file = <<>>
    /\ result = ""


\* no file is being loaded: the function is called directly
NotLoaded ==
    /\ rows = <<>>
    /\ arg_sampling_rate = NotGiven
    /\ duration = DefaultDuration
    /\ row_index = 0
    /\ t_loaded = <<>>
    /\ ecg_loaded = <<>>
    /\ estimated_sampling_rate = 0
    /\ error = ""

\* analyze_ecg(ecg_signal, sampling_rate) is called
Init ==
    /\ pc = "analyze_ecg"
    /\ sampling_rate \in SamplingRates
    /\ ecg_signal \in ConstSignals \cup BeatSignals(sampling_rate)
    /\ peaks = <<>>
    /\ heart_rates = <<>>
    /\ window_size = DefaultWindowSize
    /\ Blank
    /\ NotLoaded
    /\ SingleCall
    /\ NotSeparating
    /\ NotCapturing

\* calculate_heart_rate(peaks, sampling_rate) is called directly, and
\* calculate_average_heart_rate on its result
InitHR ==
    /\ pc = "heart_rate"
    /\ ecg_signal = <<>>
    /\ sampling_rate \in HRSamplingRates
    /\ peaks \in PeakSets(sampling_rate)
    /\ heart_rates = <<>>
    /\ window_size \in WindowSizes
    /\ Blank
    /\ NotLoaded
    /\ SingleCall
    /\ NotSeparating
    /\ NotCapturing

\* calculate_average_heart_rate(heart_rates) is called directly
InitAvg ==
    /\ pc = "average"
    /\ ecg_signal = <<>>
    /\ sampling_rate \in HRSamplingRates
    /\ peaks = <<>>
    /\ heart_rates \in RateSeries
    /\ window_size = DefaultWindowSize
    /\ Blank
    /\ NotLoaded
    /\ SingleCall
    /\ NotSeparating
    /\ NotCapturing

\* analyze_ecg line 207
BuildLeadOffMask ==
    /\ pc = "analyze_ecg"
    /\ UNCHANGED <<input_vars, load_vars, call_vars, sep_vars, capture_vars,
                   tie_log>>
    /\ lead_off_mask' = LeadOffMask(ecg_signal)
    /\ pc' = "smooth"
    /\ UNCHANGED <<ecg_signal, sampling_rate, working_signal, smoothed,
                   attempts, candidates, refined_peaks, peaks,
                   valid_intervals, inst_rates, inst_times, heart_rates,
                   times, valid_rates, avg_hr>>

\* a variant that masks the caller's array in place instead of a copy
MaskAndSmooth_InPlace ==
    /\ pc = "smooth"
    /\ UNCHANGED <<input_vars, load_vars, call_vars, sep_vars, capture_vars,
                   tie_log>>
    /\ ecg_signal' = WorkingSignal(ecg_signal)
    /\ working_signal' = WorkingSignal(ecg_signal)
    /\ smoothed' = Smoothed(WorkingSignal(ecg_signal), sampling_rate)
    /\ pc' = "find_peaks"
    /\ UNCHANGED <<sampling_rate, lead_off_mask, attempts, candidates,
                   refined_peaks, peaks, valid_intervals, inst_rates,
                   inst_times, heart_rates, times, valid_rates, avg_hr>>

\* detect_r_peaks lines 30-50
MaskAndSmooth ==
    /\ pc = "smooth"
    /\ UNCHANGED <<input_vars, load_vars, call_vars, sep_vars, capture_vars,
                   tie_log>>
    /\ working_signal' = WorkingSignal(ecg_signal)
    /\ smoothed' = Smoothed(WorkingSignal(ecg_signal), sampling_rate)
    /\ pc' = "find_peaks"
    /\ UNCHANGED <<ecg_signal, sampling_rate, lead_off_mask, attempts,
                   candidates, refined_peaks, peaks, valid_intervals,
                   inst_rates, inst_times, heart_rates, times, valid_rates,
                   avg_hr>>

TieOrders == {"last", "first"}

\* np.argsort is a function of its input: when the caller repeats its first
\* call, equal heights come out in the order they had in that call
TiesFor(k) ==
    IF call_kind = "repeat" /\ first_call.made /\ k <= Len(first_call.ties)
    THEN {first_call.ties[k]}
    ELSE TieOrders

\* detect_r_peaks lines 53-70 and the else branch of line 106
FindPeaksFirst ==
    /\ pc = "find_peaks"
    /\ UNCHANGED <<input_vars, load_vars, call_vars, sep_vars, capture_vars>>
    /\ \E tie \in TiesFor(Len(tie_log) + 1) :
        IF Stats(smoothed).n = 0
        THEN /\ pc' = "heart_rate"
             /\ UNCHANGED <<attempts, candidates, tie_log>>
        ELSE IF MinSamples(sampling_rate) < 1
        THEN /\ pc' = "raised"
             /\ attempts' = 1
             /\ UNCHANGED <<candidates, tie_log>>
        ELSE LET found == FindPeaks(smoothed, sampling_rate, ThresholdFactor,
                                    ProminenceFactor, tie)
             IN  /\ candidates' = found
                 /\ attempts' = 1
                 /\ tie_log' = Append(tie_log, tie)
                 /\ pc' = IF Len(found) = 0 THEN "relax" ELSE "refine"
    /\ UNCHANGED <<ecg_signal, sampling_rate, lead_off_mask, working_signal,
                   smoothed, refined_peaks, peaks, valid_intervals,
                   inst_rates, inst_times, heart_rates, times, valid_rates,
                   avg_hr>>

\* a variant that keeps relaxing while nothing is found
FindPeaksRelaxed_Retrying ==
    /\ pc = "relax"
    /\ UNCHANGED <<input_vars, load_vars, call_vars, sep_vars, capture_vars>>
    /\ \E tie \in TiesFor(Len(tie_log) + 1) :
        LET found == FindPeaks(smoothed, sampling_rate, RelaxedThresholdFactor,
                               RelaxedProminenceFactor, tie)
        IN  /\ candidates' = found
            /\ attempts' = attempts + 1
            /\ tie_log' = Append(tie_log, tie)
            /\ pc' = IF Len(found) # 0 THEN "refine"
                     ELSE IF attempts < 3 THEN "relax" ELSE "heart_rate"
    /\ UNCHANGED <<ecg_signal, sampling_rate, lead_off_mask, working_signal,
                   smoothed, refined_peaks, peaks, valid_intervals,
                   inst_rates, inst_times, heart_rates, times, valid_rates,
                   avg_hr>>

\* detect_r_peaks lines 73-81
FindPeaksRelaxed ==
    /\ pc = "relax"
    /\ UNCHANGED <<input_vars, load_vars, call_vars, sep_vars, capture_vars>>
    /\ \E tie \in TiesFor(Len(tie_log) + 1) :
        LET found == FindPeaks(smoothed, sampling_rate, RelaxedThresholdFactor,
                               RelaxedProminenceFactor, tie)
        IN  /\ candidates' = found
            /\ attempts' = attempts + 1
            /\ tie_log' = Append(tie_log, tie)
            /\ pc' = IF Len(found) = 0 THEN "heart_rate" ELSE "refine"
    /\ UNCHANGED <<ecg_signal, sampling_rate, lead_off_mask, working_signal,
                   smoothed, refined_peaks, peaks, valid_intervals,
                   inst_rates, inst_times, heart_rates, times, valid_rates,
                   avg_hr>>

\* detect_r_peaks lines 84-97
RefinePeaks ==
    /\ pc = "refine"
    /\ UNCHANGED <<input_vars, load_vars, call_vars, sep_vars, capture_vars,
                   tie_log>>
    /\ refined_peaks' = Refine(working_signal, sampling_rate, candidates)
    /\ pc' = "outlier"
    /\ UNCHANGED <<ecg_signal, sampling_rate, lead_off_mask, working_signal,
                   smoothed, attempts, candidates, peaks, valid_intervals,
                   inst_rates, inst_times, heart_rates, times, valid_rates,
                   avg_hr>>

\* detect_r_peaks lines 99-109: the outlier pass and the return
RemoveOutliers ==
    /\ pc = "outlier"
    /\ UNCHANGED <<input_vars, load_vars, call_vars, sep_vars, capture_vars,
                   tie_log>>
    /\ peaks' = OutlierPass(working_signal, refined_peaks)
    /\ pc' = "heart_rate"
    /\ UNCHANGED <<ecg_signal, sampling_rate, lead_off_mask, working_signal,
                   smoothed, attempts, candidates, refined_peaks,
                   valid_intervals, inst_rates, inst_times, heart_rates,
                   times, valid_rates, avg_hr>>

\* calculate_heart_rate(peaks, sampling_rate)
CalculateHeartRate ==
    /\ pc = "heart_rate"
    /\ UNCHANGED <<input_vars, load_vars, call_vars, sep_vars, capture_vars,
                   tie_log>>
    /\ LET r == CalcHeartRate(peaks, sampling_rate, window_size)
       IN  /\ valid_intervals' = r.mask
           /\ inst_rates' = r.irates
           /\ inst_times' = r.itimes
           /\ heart_rates' = r.rates
           /\ times' = r.times
    /\ pc' = "average"
    /\ UNCHANGED <<ecg_signal, sampling_rate, lead_off_mask, working_signal,
                   smoothed, attempts, candidates, refined_peaks, peaks,
                   valid_rates, avg_hr>>

\* calculate_average_heart_rate(heart_rates)
CalculateAverageHeartRate ==
    /\ pc = "average"
    /\ UNCHANGED <<input_vars, load_vars, call_vars, sep_vars, capture_vars,
                   tie_log>>
    /\ valid_rates' = ValidRates(heart_rates)
    /\ avg_hr' = CalcAverage(heart_rates)
    /\ pc' = "done"
    /\ UNCHANGED <<ecg_signal, sampling_rate, lead_off_mask, working_signal,
                   smoothed, attempts, candidates, refined_peaks, peaks,
                   valid_intervals, inst_rates, inst_times, heart_rates,
                   times>>

Next ==
    \/ BuildLeadOffMask
    \/ MaskAndSmooth
    \/ FindPeaksFirst
    \/ FindPeaksRelaxed
    \/ RefinePeaks
    \/ RemoveOutliers
    \/ CalculateHeartRate
    \/ CalculateAverageHeartRate

Spec == Init /\ [][Next]_vars

NextHR ==
    \/ CalculateHeartRate
    \/ CalculateAverageHeartRate

SpecHR == InitHR /\ [][NextHR]_vars

NextAvg == CalculateAverageHeartRate

SpecAvg == InitAvg /\ [][NextAvg]_vars

(***************************************************************************)
(* load_ecg_from_csv and the part of __main__ that calls the analysis       *)
(***************************************************************************)
RatNeg(a) == IF IsNaN(a) THEN NaNRat ELSE <<-a[1], a[2]>>

RatSub(a, b) == RatAdd(a, RatNeg(b))

RatGt(a, b) == ~IsNaN(a) /\ ~IsNaN(b) /\ a[1] * b[2] > b[1] * a[2]

\* int(x): truncation toward zero
IntTrunc(a) ==
    IF a[1] >= 0 THEN a[1] \div a[2] ELSE -((-a[1]) \div a[2])

\* sampling_rate = 400, used when fewer than 2 samples were loaded
DefaultSamplingRate == 400

\* a field of a record: ok is whether float() parses it, v its value
Parsed(v) == [ok |-> TRUE, v |-> v]

Unparsable(v) == [ok |-> FALSE, v |-> v]

\* dt = np.mean(np.diff(t)), for len(t) > 1
MeanDiff(tt) ==
    RatDivInt(RatSum([i \in 1..(Len(tt) - 1) |-> RatSub(tt[i + 1], tt[i])]),
              Len(tt) - 1)

\* int(1 / dt), for dt # 0
RateFromInterval(dt) ==
    IF dt[1] > 0 THEN IntTrunc(<<dt[2], dt[1]>>)
    ELSE IntTrunc(<<-dt[2], -dt[1]>>)

\* a variant that skips a record beyond duration and keeps reading
ReadRow_SkipsLateRecord ==
    /\ pc = "load"
    /\ row_index < Len(rows)
    /\ LET row == rows[row_index + 1]
       IN  IF ~row.time.ok
           THEN /\ pc' = "raised"
                /\ error' = "ValueError"
                /\ UNCHANGED <<row_index, t_loaded, ecg_loaded>>
           ELSE IF RatGt(row.time.v, duration)
           THEN /\ pc' = "load"
                /\ row_index' = row_index + 1
                /\ UNCHANGED <<t_loaded, ecg_loaded, error>>
           ELSE IF ~row.value.ok
           THEN /\ pc' = "raised"
                /\ error' = "ValueError"
                /\ t_loaded' = Append(t_loaded, row.time.v)
                /\ UNCHANGED <<row_index, ecg_loaded>>
           ELSE /\ pc' = "load"
                /\ row_index' = row_index + 1
                /\ t_loaded' = Append(t_loaded, row.time.v)
                /\ ecg_loaded' = Append(ecg_loaded, row.value.v)
                /\ UNCHANGED error
    /\ UNCHANGED <<ecg_signal, sampling_rate, lead_off_mask, working_signal,
                   smoothed, attempts, candidates, refined_peaks, peaks,
                   valid_intervals, inst_rates, inst_times, heart_rates,
                   times, valid_rates, avg_hr, input_vars,
                   estimated_sampling_rate, tie_log, call_vars,
                   sep_vars, capture_vars>>

\* the body of `for row in reader` for one record (lines 389-394)
ReadRow ==
    /\ pc = "load"
    /\ row_index < Len(rows)
    /\ LET row == rows[row_index + 1]
       IN  IF ~row.time.ok
           THEN /\ pc' = "raised"
                /\ error' = "ValueError"
                /\ UNCHANGED <<row_index, t_loaded, ecg_loaded>>
           ELSE IF RatGt(row.time.v, duration)
           THEN /\ pc' = "estimate"
                /\ row_index' = row_index + 1
                /\ UNCHANGED <<t_loaded, ecg_loaded, error>>
           ELSE IF ~row.value.ok
           THEN /\ pc' = "raised"
                /\ error' = "ValueError"
                /\ t_loaded' = Append(t_loaded, row.time.v)
                /\ UNCHANGED <<row_index, ecg_loaded>>
           ELSE /\ pc' = "load"
                /\ row_index' = row_index + 1
                /\ t_loaded' = Append(t_loaded, row.time.v)
                /\ ecg_loaded' = Append(ecg_loaded, row.value.v)
                /\ UNCHANGED error
    /\ UNCHANGED <<ecg_signal, sampling_rate, lead_off_mask, working_signal,
                   smoothed, attempts, candidates, refined_peaks, peaks,
                   valid_intervals, inst_rates, inst_times, heart_rates,
                   times, valid_rates, avg_hr, input_vars,
                   estimated_sampling_rate, tie_log, call_vars,
                   sep_vars, capture_vars>>

\* lines 396-409: the reader is exhausted or the loop was left by break
EstimateSamplingRate ==
    /\ pc = "estimate" \/ (pc = "load" /\ row_index = Len(rows))
    /\ IF Len(t_loaded) > 1 /\ MeanDiff(t_loaded)[1] = 0
       THEN /\ pc' = "raised"
            /\ error' = "OverflowError"
            /\ UNCHANGED estimated_sampling_rate
       ELSE /\ estimated_sampling_rate' =
                   IF Len(t_loaded) > 1
                   THEN RateFromInterval(MeanDiff(t_loaded))
                   ELSE DefaultSamplingRate
            /\ IF Len(t_loaded) = 0
               THEN pc' = "raised" /\ error' = "IndexError"
               ELSE pc' = "main" /\ UNCHANGED error
    /\ UNCHANGED <<ecg_signal, sampling_rate, lead_off_mask, working_signal,
                   smoothed, attempts, candidates, refined_peaks, peaks,
                   valid_intervals, inst_rates, inst_times, heart_rates,
                   times, valid_rates, avg_hr, input_vars, row_index,
                   t_loaded, ecg_loaded, tie_log, call_vars,
                   sep_vars, capture_vars>>

\* __main__ lines 464-480: the sampling rate is chosen and analyze_ecg called
ChooseSamplingRate ==
    /\ pc = "main"
    /\ sampling_rate' = IF arg_sampling_rate.given THEN arg_sampling_rate.rate
                        ELSE estimated_sampling_rate
    /\ ecg_signal' = ecg_loaded
    /\ pc' = "analyze_ecg"
    /\ UNCHANGED <<lead_off_mask, working_signal, smoothed, attempts,
                   candidates, refined_peaks, peaks, valid_intervals,
                   inst_rates, inst_times, heart_rates, times, valid_rates,
                   avg_hr, input_vars, load_vars, tie_log,
                   call_vars, sep_vars, capture_vars>>

\* the time fields and sample fields of the records of a file
TimeFields ==
    {Parsed(<<0, 1>>), Parsed(<<1, 100>>), Parsed(<<3, 100>>),
     Parsed(<<3, 2>>), Parsed(<<11, 1>>), Unparsable(<<0, 1>>)}

ValueFields == {Parsed(0), Parsed(3), Parsed(9), Unparsable(0)}

MaxRows == 3

\* recordings: the parsable time stamps of a file never decrease
NonDecreasing(rs) ==
    \A i, j \in 1..Len(rs) :
        (i < j /\ rs[i].time.ok /\ rs[j].time.ok) =>
            RatLe(rs[i].time.v, rs[j].time.v)

RowSets ==
    UNION {{rs \in [1..n -> [time : TimeFields, value : ValueFields]] :
                NonDecreasing(rs)} : n \in 0..MaxRows}

ArgSamplingRates == {NotGiven, Given(0), Given(25)}

\* python ecg_analyzer.py --input file [--sampling-rate r]
InitLoad ==
    /\ pc = "load"
    /\ rows \in RowSets
    /\ arg_sampling_rate \in ArgSamplingRates
    /\ duration = DefaultDuration
    /\ window_size = DefaultWindowSize
    /\ row_index = 0
    /\ t_loaded = <<>>
    /\ ecg_loaded = <<>>
    /\ estimated_sampling_rate = 0
    /\ error = ""
    /\ ecg_signal = <<>>
    /\ sampling_rate = 0
    /\ peaks = <<>>
    /\ heart_rates = <<>>
    /\ Blank
    /\ SingleCall
    /\ NotSeparating
    /\ NotCapturing

NextLoad ==
    \/ ReadRow
    \/ EstimateSamplingRate
    \/ ChooseSamplingRate
    \/ Next

SpecLoad == InitLoad /\ [][NextLoad]_vars

(***************************************************************************)
(* load_ecg_from_csv called on any file, with any duration                  *)
(***************************************************************************)
Durations == {<<1, 1>>, DefaultDuration}

FileTimeFields ==
    {Parsed(<<0, 1>>), Parsed(<<3, 2>>), Parsed(<<11, 1>>),
     Unparsable(<<0, 1>>)}

FileValueFields == {Parsed(3), Parsed(9), Unparsable(0)}

\* the records of a file, in any order of their times
FileRowSets ==
    UNION {[1..n -> [time : FileTimeFields, value : FileValueFields]] :
              n \in 0..MaxRows}

\* load_ecg_from_csv(filename, duration)
InitLoadFile ==
    /\ pc = "load"
    /\ rows \in FileRowSets
    /\ duration \in Durations
    /\ arg_sampling_rate = NotGiven
    /\ window_size = DefaultWindowSize
    /\ row_index = 0
    /\ t_loaded = <<>>
    /\ ecg_loaded = <<>>
    /\ estimated_sampling_rate = 0
    /\ error = ""
    /\ ecg_signal = <<>>
    /\ sampling_rate = 0
    /\ peaks = <<>>
    /\ heart_rates = <<>>
    /\ Blank
    /\ SingleCall
    /\ NotSeparating
    /\ NotCapturing

NextLoadFile ==
    \/ ReadRow
    \/ EstimateSamplingRate

SpecLoadFile == InitLoadFile /\ [][NextLoadFile]_vars

(***************************************************************************)
(* Source separator (spec.md section 4.3; no source file holds its code)    *)
(***************************************************************************)
\* a secondary peak is pruned when a primary peak lies within the gap
NearPrimary_StrictlyInside(primary, gap, s) ==
    \E i \in 1..Len(primary) : Abs(s - primary[i]) < gap

NearPrimary(primary, gap, s) ==
    \E i \in 1..Len(primary) : Abs(s - primary[i]) <= gap

\* separate(primary_peaks, secondary_peaks, min_gap_samples)
SeparateSources(primary, secondary, gap) ==
    <<primary,
      SelectSeq(secondary, LAMBDA s : ~NearPrimary(primary, gap, s))>>

Separate ==
    /\ pc = "separate"
    /\ separated' =
           SeparateSources(primary_peaks, secondary_peaks, min_gap_samples)
    /\ pc' = "separated"
    /\ UNCHANGED <<ecg_signal, sampling_rate, lead_off_mask, working_signal,
                   smoothed, attempts, candidates, refined_peaks, peaks,
                   valid_intervals, inst_rates, inst_times, heart_rates,
                   times, valid_rates, avg_hr, input_vars, load_vars,
                   tie_log, call_vars, primary_peaks, secondary_peaks,
                   min_gap_samples, capture_vars>>

MaxPeakIndex == 4

\* the increasing index sequences over 0..MaxPeakIndex
RECURSIVE IndexSeqsFrom(_)
IndexSeqsFrom(lo) ==
    {<<>>} \cup
    UNION {{<<i>> \o rest : rest \in IndexSeqsFrom(i + 1)} :
              i \in lo..MaxPeakIndex}

MinGaps == {0, 1, 2}

InitSeparate ==
    /\ pc = "separate"
    /\ primary_peaks \in IndexSeqsFrom(0)
    /\ secondary_peaks \in IndexSeqsFrom(0)
    /\ min_gap_samples \in MinGaps
    /\ separated = <<>>
    /\ ecg_signal = <<>>
    /\ sampling_rate = 0
    /\ peaks = <<>>
    /\ heart_rates = <<>>
    /\ window_size = DefaultWindowSize
    /\ Blank
    /\ NotLoaded
    /\ SingleCall
    /\ NotCapturing

NextSeparate == Separate

SpecSeparate == InitSeparate /\ [][NextSeparate]_vars

(***************************************************************************)
(* A caller that calls analyze_ecg again                                    *)
(***************************************************************************)
\* what a call hands back: the tuple of line 220, or the exception
Returned ==
    [outcome |-> pc, peaks |-> peaks, heart_rates |-> heart_rates,
     times |-> times, avg_hr |-> avg_hr, lead_off_mask |-> lead_off_mask]

Finished == pc \in {"done", "raised"}

MaxRepeatBeats == 2

RepeatSignals(sr) ==
    ConstSignals \cup
    {BeatSignal(shapes, len) :
        shapes \in UNION {[1..n -> BeatShapes] : n \in 1..MaxRepeatBeats},
        len \in RestLengths(sr)}

\* the calls a caller makes between two calls on the same array
OtherCalls ==
    {[signal |-> <<3, 0, 8, 3, 3>>, rate |-> 25],
     [signal |-> BeatSignal(<<<<9>>, <<1, 9, 9, 9>>>>, 42), rate |-> 100]}

\* the caller's array, the rate and the result of its first call
KeptOfFirstCall(between) ==
    IF first_call.made THEN first_call
    ELSE [made |-> TRUE, signal |-> ecg_signal, rate |-> sampling_rate,
          returned |-> Returned, ties |-> tie_log, calls_between |-> between]

\* entering analyze_ecg: the locals of the new call
NewFrame ==
    /\ pc' = "analyze_ecg"
    /\ peaks' = <<>>
    /\ heart_rates' = <<>>
    /\ lead_off_mask' = <<>>
    /\ working_signal' = <<>>
    /\ smoothed' = <<>>
    /\ attempts' = 0
    /\ candidates' = <<>>
    /\ refined_peaks' = <<>>
    /\ valid_intervals' = <<>>
    /\ inst_rates' = <<>>
    /\ inst_times' = <<>>
    /\ times' = <<>>
    /\ valid_rates' = <<>>
    /\ avg_hr' = ZeroRat
    /\ tie_log' = <<>>

\* the caller analyses another recording
CallBetween ==
    /\ Finished
    /\ call_kind = "first"
    /\ first_call' = KeptOfFirstCall(1)
    /\ call_kind' = "between"
    /\ \E other \in OtherCalls :
        /\ ecg_signal' = other.signal
        /\ sampling_rate' = other.rate
    /\ NewFrame
    /\ UNCHANGED <<input_vars, load_vars, sep_vars, capture_vars>>

\* the caller passes the array and the rate of its first call again
CallRepeat ==
    /\ Finished
    /\ call_kind \in {"first", "between"}
    /\ first_call' = KeptOfFirstCall(0)
    /\ call_kind' = "repeat"
    /\ ecg_signal' = KeptOfFirstCall(0).signal
    /\ sampling_rate' = KeptOfFirstCall(0).rate
    /\ NewFrame
    /\ UNCHANGED <<input_vars, load_vars, sep_vars, capture_vars>>

InitRepeat ==
    /\ pc = "analyze_ecg"
    /\ sampling_rate \in SamplingRates
    /\ ecg_signal \in RepeatSignals(sampling_rate)
    /\ peaks = <<>>
    /\ heart_rates = <<>>
    /\ window_size = DefaultWindowSize
    /\ Blank
    /\ NotLoaded
    /\ SingleCall
    /\ NotSeparating
    /\ NotCapturing

NextRepeat ==
    \/ Next
    \/ CallBetween
    \/ CallRepeat

SpecRepeat == InitRepeat /\ [][NextRepeat]_vars

(***************************************************************************)
(* Capture tools: capture_ecg_data (src/client_ecg_data_capture.py) and     *)
(* capture_raw_data (src/for_esp/ecg_data_capture.py).  Both open the       *)
(* port, wait, read lines until the duration has elapsed, close the port    *)
(* and write the CSV file.  capture_raw_data is modelled as its statements  *)
(* read in order: the file does not compile as it stands (the indentation   *)
(* of lines 125, 128, 159-162 and 172 is off).                              *)
(* Time is counted in clock ticks.  The progress counters sample_count and  *)
(* last_print_time only feed print calls and are left out.                  *)
(***************************************************************************)
\* Python None in a column of a record
None == -1000001

ClientHeader == <<"Time (s)", "Raw ECG", "Filtered ECG", "BPM", "Timestamp">>

EspHeader == <<"Time (s)", "Raw ECG Value">>

Header(tl) == IF tl = "client" THEN ClientHeader ELSE EspHeader

JsonFull == "{\"rawEcg\": 512, \"smoothedEcg\": 500, \"bpm\": 72}"

JsonNoRaw == "{\"bpm\": 72}"

JsonBroken == "{rawEcg: 512}"

\* the lines the client firmware sends
ClientLines ==
    {"", "Warning: Lead-off detected", "Connected to Wi-Fi",
     "Data sent successfully", "Fetal BPM: 140", "ECG monitor ready",
     JsonFull, JsonNoRaw, JsonBroken}

EspBanner == "ECG Raw Data Monitor Started"

\* the lines the raw-data firmware sends
EspLines == {"", "Leads off!", "raw", EspBanner, "512", "0", "51x"}

DeviceLines(tl) == IF tl = "client" THEN ClientLines ELSE EspLines

\* phrase in text, for the phrases of the line filters
Contains(text, phrase) ==
    phrase \in
        CASE text = "Warning: Lead-off detected" -> {"Lead-off detected"}
          [] text = "Connected to Wi-Fi" -> {"Connected to Wi-Fi"}
          [] text = "Data sent successfully" -> {"Data sent successfully"}
          [] text = "Fetal BPM: 140" -> {"Fetal BPM:"}
          [] OTHER -> {}

\* text.startswith("{") and text.endswith("}")
IsBraced(text) == text \in {JsonFull, JsonNoRaw, JsonBroken}

\* json.loads(text) followed by the .get calls of lines 138-141
JsonLoads(text) ==
    CASE text = JsonFull ->
           [ok |-> TRUE, rawEcg |-> 512, smoothedEcg |-> 500, bpm |-> 72]
      [] text = JsonNoRaw ->
           [ok |-> TRUE, rawEcg |-> None, smoothedEcg |-> None, bpm |-> 72]
      [] OTHER ->
           [ok |-> FALSE, rawEcg |-> None, smoothedEcg |-> None, bpm |-> None]

\* float(text)
FloatOf(text) ==
    CASE text = "512" -> Parsed(512)
      [] text = "0" -> Parsed(0)
      [] OTHER -> Unparsable(0)

\* capture_ecg_data lines 95-160: the records one line adds to data
ClientRows(text, at) ==
    IF text = "" THEN <<>>
    ELSE IF Contains(text, "Lead-off detected")
    THEN << <<at, None, None, None, "Lead-off detected">> >>
    ELSE IF Contains(text, "Connected to Wi-Fi")
            \/ Contains(text, "Reconnected to Wi-Fi")
    THEN <<>>
    ELSE IF Contains(text, "Data sent successfully") THEN <<>>
    ELSE IF Contains(text, "Fetal BPM:") THEN <<>>
    ELSE IF Contains(text, "Maternal BPM:") THEN <<>>
    ELSE IF IsBraced(text) /\ JsonLoads(text).ok
    THEN << <<at, JsonLoads(text).rawEcg, JsonLoads(text).smoothedEcg,
              JsonLoads(text).bpm, "now">> >>
    ELSE <<>>

\* capture_raw_data lines 116-144
EspRows(text, at) ==
    IF text = "Leads off!" THEN <<>>
    ELSE IF text = "" \/ text = "raw" THEN <<>>
    ELSE IF FloatOf(text).ok THEN << <<at, FloatOf(text).v>> >>
    ELSE <<>>

RowsOf(tl, text, at) ==
    IF tl = "client" THEN ClientRows(text, at) ELSE EspRows(text, at)

MaxLines == 3

\* the durations, in clock ticks, a capture is asked for
CaptureDurations == {1, 2}

\* everything but the capture tools' own state
not_capture_vars ==
    <<ecg_signal, sampling_rate, lead_off_mask, working_signal, smoothed,
      attempts, candidates, refined_peaks, peaks, valid_intervals,
      inst_rates, inst_times, heart_rates, times, valid_rates, avg_hr,
      tie_log, input_vars, load_vars, call_vars, sep_vars>>

\* lines 64-72: serial.Serial(...) succeeds or raises SerialException
OpenPort ==
    /\ pc = "capture"
    /\ \E opened \in BOOLEAN :
        IF opened
        THEN /\ port' = "open"
             /\ pc' = "wait"
             /\ UNCHANGED result
        ELSE /\ result' = "False"
             /\ pc' = "returned"
             /\ UNCHANGED port
    /\ UNCHANGED <<not_capture_vars, tool, capture_duration, closes,
                   lines_read, line, elapsed, data, stopped_by, pending,
                   saved, csv_file>>

\* lines 74-87: time.sleep(2) and the set-up of the locals
WaitForDevice ==
    /\ pc = "wait"
    /\ pc' = IF tool = "esp" THEN "drain" ELSE "read_loop"
    /\ UNCHANGED <<not_capture_vars, capture_vars>>

\* capture_raw_data lines 95-99: a pending line is read and dropped
DrainLine ==
    /\ pc = "drain"
    /\ lines_read < MaxLines
    /\ \E text \in EspLines :
        /\ line' = text
        /\ pc' = IF text = EspBanner THEN "read_loop" ELSE "drain"
    /\ lines_read' = lines_read + 1
    /\ UNCHANGED <<not_capture_vars, tool, capture_duration, port, closes,
                   elapsed, data, stopped_by, pending, saved, csv_file,
                   result>>

\* capture_raw_data line 95: nothing is waiting
DrainDone ==
    /\ pc = "drain"
    /\ pc' = "read_loop"
    /\ UNCHANGED <<not_capture_vars, capture_vars>>

\* lines 90-164: one line is read and handled
ReadLine ==
    /\ pc = "read_loop"
    /\ elapsed < capture_duration
    /\ lines_read < MaxLines
    /\ \E text \in DeviceLines(tool), dt \in {0, 1} :
        /\ line' = text
        /\ data' = data \o RowsOf(tool, text, elapsed)
        /\ elapsed' = elapsed + dt
    /\ lines_read' = lines_read + 1
    /\ UNCHANGED <<not_capture_vars, tool, capture_duration, port, closes,
                   stopped_by, pending, saved, csv_file, result, pc>>

\* lines 90-91: ser.in_waiting is 0 and time passes
NothingWaiting ==
    /\ pc = "read_loop"
    /\ elapsed < capture_duration
    /\ elapsed' = elapsed + 1
    /\ UNCHANGED <<not_capture_vars, tool, capture_duration, port, closes,
                   lines_read, line, data, stopped_by, pending, saved,
                   csv_file, result, pc>>

\* line 90: the while condition is false
DurationElapsed ==
    /\ pc = "read_loop"
    /\ elapsed >= capture_duration
    /\ stopped_by' = "duration"
    /\ pc' = "finally"
    /\ UNCHANGED <<not_capture_vars, tool, capture_duration, port, closes,
                   lines_read, line, elapsed, data, pending, saved,
                   csv_file, result>>

\* a variant without the except KeyboardInterrupt clause
KeyboardInterrupt_NotCaught ==
    /\ pc \in {"wait", "drain", "read_loop"}
    /\ IF pc = "read_loop"
       THEN /\ stopped_by' = "KeyboardInterrupt"
            /\ pending' = "KeyboardInterrupt"
            /\ pc' = "finally"
            /\ UNCHANGED result
       ELSE /\ result' = "KeyboardInterrupt"
            /\ pc' = "raised"
            /\ UNCHANGED <<stopped_by, pending>>
    /\ UNCHANGED <<not_capture_vars, tool, capture_duration, port, closes,
                   lines_read, line, elapsed, data, saved, csv_file>>

\* Ctrl+C: caught by line 166 inside the try statement, escaping before it
KeyboardInterrupt ==
    /\ pc \in {"wait", "drain", "read_loop"}
    /\ IF pc = "read_loop"
       THEN /\ stopped_by' = "KeyboardInterrupt"
            /\ pc' = "finally"
            /\ UNCHANGED result
       ELSE /\ result' = "KeyboardInterrupt"
            /\ pc' = "raised"
            /\ UNCHANGED stopped_by
    /\ UNCHANGED <<not_capture_vars, tool, capture_duration, port, closes,
                   lines_read, line, elapsed, data, pending, saved,
                   csv_file>>

\* line 91: ser.in_waiting raises SerialException (the device is unplugged);
\* no except clause of the try statement catches it
SerialError ==
    /\ pc = "read_loop"
    /\ elapsed < capture_duration
    /\ stopped_by' = "SerialException"
    /\ pending' = "SerialException"
    /\ pc' = "finally"
    /\ UNCHANGED <<not_capture_vars, tool, capture_duration, port, closes,
                   lines_read, line, elapsed, data, saved, csv_file,
                   result>>

\* lines 168-170: finally: ser.close(); a pending exception goes on
ClosePort ==
    /\ pc = "finally"
    /\ port' = "closed"
    /\ closes' = closes + 1
    /\ IF pending # ""
       THEN /\ result' = pending
            /\ pc' = "raised"
       ELSE /\ pc' = "save"
            /\ UNCHANGED result
    /\ UNCHANGED <<not_capture_vars, tool, capture_duration, lines_read,
                   line, elapsed, data, stopped_by, pending, saved,
                   csv_file>>

\* lines 172-195: the file is written, or open() fails, or there is no data
SaveCsv ==
    /\ pc = "save"
    /\ IF data = <<>>
       THEN /\ saved' = "no data"
            /\ result' = "False"
            /\ UNCHANGED csv_file
       ELSE \E written \in BOOLEAN :
            IF written
            THEN /\ csv_file' = <<Header(tool)>> \o data
                 /\ saved' = "written"
                 /\ result' = "True"
            ELSE /\ saved' = "failed"
                 /\ result' = "False"
                 /\ UNCHANGED csv_file
    /\ pc' = "returned"
    /\ UNCHANGED <<not_capture_vars, tool, capture_duration, port, closes,
                   lines_read, line, elapsed, data, stopped_by, pending>>

\* capture_ecg_data / capture_raw_data (port, baud_rate, duration, file)
InitCapture ==
    /\ pc = "capture"
    /\ tool \in {"client", "esp"}
    /\ capture_duration \in CaptureDurations
    /\ port = "unopened"
    /\ closes = 0
    /\ lines_read = 0
    /\ line = ""
    /\ elapsed = 0
    /\ data = <<>>
    /\ stopped_by = ""
    /\ pending = ""
    /\ saved = ""
    /\ csv_file = <<>>
    /\ result = ""
    /\ ecg_signal = <<>>
    /\ sampling_rate = 0
    /\ peaks = <<>>
    /\ heart_rates = <<>>
    /\ window_size = DefaultWindowSize
    /\ Blank
    /\ NotLoaded
    /\ SingleCall
    /\ NotSeparating

NextCapture ==
    \/ OpenPort
    \/ WaitForDevice
    \/ DrainLine
    \/ DrainDone
    \/ ReadLine
    \/ NothingWaiting
    \/ DurationElapsed
    \/ KeyboardInterrupt
    \/ SerialError
    \/ ClosePort
    \/ SaveCsv

SpecCapture == InitCapture /\ [][NextCapture]_vars

(***************************************************************************)
(* Properties                                                               *)
(***************************************************************************)
HeartRateReturned == pc \in {"average", "done"}

\* C1: a peak set with fewer than 2 peaks gives an empty rate series and an
\* empty time series, and its average is exactly 0.0
C1_FewPeaksGiveEmptySeriesAndZero ==
    Len(peaks) < 2 =>
        /\ HeartRateReturned => heart_rates = <<>> /\ times = <<>>
        /\ pc = "done" => avg_hr = ZeroRat

C1_Witness == pc = "done" /\ Len(peaks) = 1

\* the indices of the entries of a rate series lying in [40, 200]
InRange(r) == {k \in 1..Len(r) : RatGe(r[k], <<40, 1>>) /\ RatLe(r[k], <<200, 1>>)}

RECURSIVE RatSumOver(_, _)
RatSumOver(r, I) ==
    IF I = {} THEN ZeroRat
    ELSE LET k == CHOOSE k \in I : TRUE
         IN  RatAdd(r[k], RatSumOver(r, I \ {k}))

\* C2: the average is the mean of exactly the entries in [40, 200], and 0.0
\* when there is none; so it is 0.0 or lies in [40, 200]
C2_AverageIsMeanOfEntriesInRange ==
    pc = "done" =>
        LET I == InRange(heart_rates)
        IN  /\ I = {} => avg_hr = ZeroRat
            /\ I # {} => avg_hr = RatDivInt(RatSumOver(heart_rates, I), Cardinality(I))
            /\ avg_hr = ZeroRat \/ (RatGe(avg_hr, <<40, 1>>) /\ RatLe(avg_hr, <<200, 1>>))

C2_Witness ==
    /\ pc = "done"
    /\ InRange(heart_rates) # {}
    /\ Cardinality(InRange(heart_rates)) < Len(heart_rates)

\* the RR intervals of the peak set, in samples
Intervals == [i \in 1..(Len(peaks) - 1) |-> peaks[i + 1] - peaks[i]]

\* the intervals that contribute to the returned rate series
Contributing ==
    IF heart_rates = <<>> THEN {}
    ELSE {i \in 1..Len(valid_intervals) : valid_intervals[i]}

\* the k-th contributing interval
KthContributing(k) ==
    CHOOSE i \in Contributing :
        Cardinality({j \in Contributing : j <= i}) = k

\* C6: no RR interval that contributes to the returned rate series differs
\* from its immediate predecessor by more than 50% of that predecessor,
\* whatever the number of intervals
C6_NoContributingIntervalJumps ==
    HeartRateReturned =>
        \A i \in Contributing :
            i > 1 => 2 * Abs(Intervals[i] - Intervals[i - 1]) <= Intervals[i - 1]

\* the part of C6 the code does provide: with more than 2 intervals
C6_NoJumpAmongMoreThanTwoIntervals ==
    (HeartRateReturned /\ Len(peaks) > 3) =>
        \A i \in Contributing :
            i > 1 => 2 * Abs(Intervals[i] - Intervals[i - 1]) <= Intervals[i - 1]

\* 60 / 0.33 BPM
MaxPlausibleRate == <<2000, 11>>

RatesWithin(r, lo, hi) == \A k \in 1..Len(r) : RatGe(r[k], lo) /\ RatLe(r[k], hi)

\* C7: every contributing RR interval lies in [0.33 s, 1.5 s]; every entry
\* of the rate series, before and after the moving average, lies between
\* 40 and 60/0.33 BPM; the re-filter of the average discards none of them
C7_RatesStayPlausible ==
    HeartRateReturned =>
        /\ \A i \in Contributing :
              /\ 100 * Intervals[i] >= 33 * sampling_rate
              /\ 2 * Intervals[i] <= 3 * sampling_rate
        /\ RatesWithin(inst_rates, <<40, 1>>, MaxPlausibleRate)
        /\ RatesWithin(heart_rates, <<40, 1>>, MaxPlausibleRate)
        /\ pc = "done" => valid_rates = heart_rates

\* a smoothed series that contains the lowest possible rate
C7_Witness ==
    /\ pc = "done"
    /\ Len(inst_rates) > 3
    /\ \E k \in 1..Len(heart_rates) : heart_rates[k] = <<40, 1>>

\* the intervals that pass the plausibility filter of calculate_heart_rate
Passing == {i \in 1..Len(valid_intervals) : valid_intervals[i]}

\* C8: with at least 2 peaks the unsmoothed rate series has one entry per
\* RR interval that passes the plausibility filter; when exactly one
\* passes, the rate series has one entry and the average is not zero
C8_OneRatePerPassingInterval ==
    (pc = "done" /\ Len(peaks) >= 2) =>
        /\ Len(inst_rates) = Cardinality(Passing)
        /\ Cardinality(Passing) = 1 => (Len(heart_rates) = 1 /\ avg_hr # ZeroRat)

\* C10: the rate series and the time series have equal length; before
\* smoothing, the time paired with a rate is the time of the later of the
\* two peaks that bound the rate's RR interval
C10_TimesArePairedWithLaterPeak ==
    HeartRateReturned =>
        /\ Len(heart_rates) = Len(times)
        /\ Len(inst_rates) = Len(inst_times)
        /\ Len(inst_rates) = Cardinality(Contributing)
        /\ \A k \in 1..Len(inst_rates) :
              LET i == KthContributing(k)
              IN  /\ inst_times[k] = Rat(peaks[i + 1], sampling_rate)
                  /\ inst_rates[k] = Rat(60 * sampling_rate, peaks[i + 1] - peaks[i])

\* rates are returned although an interval was filtered out in between
C10_Witness ==
    /\ pc = "done"
    /\ Len(inst_rates) >= 2
    /\ Len(inst_rates) < Len(peaks) - 1
    /\ \E i \in Contributing : i > 1 /\ (i - 1) \notin Contributing

DetectReturned == pc \in {"heart_rate", "average", "done"}

IsConstant(sig) == \A i \in 1..Len(sig) : sig[i] = sig[1]

\* C3: a constant signal (the all-zero, all lead-off signal included) gives
\* an empty peak set, empty rate and time series and an average of exactly
\* 0.0, without raising
C3_ConstantSignalGivesNothing ==
    IsConstant(ecg_signal) =>
        /\ pc # "raised"
        /\ candidates = <<>> /\ peaks = <<>>
        /\ pc = "done" =>
              heart_rates = <<>> /\ times = <<>> /\ avg_hr = ZeroRat

\* the part of C3 the code does provide: when the sampling rate gives a
\* refractory distance of at least one sample
C3_ConstantSignalAtUsableRate ==
    (IsConstant(ecg_signal) /\ MinSamples(sampling_rate) >= 1) =>
        /\ pc # "raised"
        /\ candidates = <<>> /\ peaks = <<>>
        /\ pc = "done" =>
              heart_rates = <<>> /\ times = <<>> /\ avg_hr = ZeroRat

Spaced(pk, dist) == \A k \in 1..(Len(pk) - 1) : pk[k + 1] - pk[k] >= dist

\* C4: consecutive returned peaks are at least int(min_distance *
\* sampling_rate) samples apart, also after the refinement and outlier
\* passes
C4_ReturnedPeaksKeepMinDistance ==
    DetectReturned =>
        /\ Spaced(refined_peaks, MinSamples(sampling_rate))
        /\ Spaced(peaks, MinSamples(sampling_rate))

\* the part of C4 the code does provide: the peaks find_peaks returns
C4_CandidatesKeepMinDistance == Spaced(candidates, MinSamples(sampling_rate))

\* C5: the returned peak set is a strictly increasing sequence of indices,
\* each a valid offset into the signal; refinement produces no duplicate
\* and no out-of-order index
C5_PeaksStrictlyIncreasingAndInRange ==
    /\ Spaced(refined_peaks, 1)
    /\ Spaced(peaks, 1)
    /\ \A k \in 1..Len(refined_peaks) :
          refined_peaks[k] \in 0..(Len(ecg_signal) - 1)
    /\ \A k \in 1..Len(peaks) : peaks[k] \in 0..(Len(ecg_signal) - 1)

\* refinement has moved a peak and at least two peaks are returned
C5_Witness ==
    /\ pc = "done"
    /\ Len(peaks) >= 2
    /\ refined_peaks # candidates

\* the amplitudes of the refined peaks
RefinedValues == [k \in 1..Len(refined_peaks) |-> At(ecg_signal, refined_peaks[k])]

\* amplitude v is more than one standard deviation below the mean of vs
MoreThanOneStdBelow(v, vs) ==
    LET n == Len(vs)
        S == SumSeq(vs)
        Q == SumSeq([k \in 1..n |-> vs[k] * vs[k]])
        a == S - n * v
    IN  a > 0 /\ a * a > n * Q - S * S

\* C9: the outlier pass removes a refined peak exactly when its amplitude
\* is more than one standard deviation below the mean amplitude of the
\* refined peaks; a peak at or above (mean - std) is kept
C9_OutlierPassRemovesOnlyLowPeaks ==
    (DetectReturned /\ refined_peaks # <<>>) =>
        \A k \in 1..Len(refined_peaks) :
            (\E j \in 1..Len(peaks) : peaks[j] = refined_peaks[k])
                <=> ~MoreThanOneStdBelow(RefinedValues[k], RefinedValues)

\* the part of C9 the code does provide: what is removed is at or below
\* (mean - std), and what is strictly above it is kept
C9_OutlierPassKeepsPeaksAboveBound ==
    (DetectReturned /\ refined_peaks # <<>>) =>
        \A k \in 1..Len(refined_peaks) :
            LET n == Len(refined_peaks)
                a == SumSeq(RefinedValues) - n * RefinedValues[k]
                V == n * SumSeq([j \in 1..n |-> RefinedValues[j] * RefinedValues[j]])
                       - SumSeq(RefinedValues) * SumSeq(RefinedValues)
            IN  (a < 0 \/ a * a < V) =>
                    \E j \in 1..Len(peaks) : peaks[j] = refined_peaks[k]

\* the rates and times of the intervals that pass the plausibility filter,
\* whether or not calculate_heart_rate goes on to return them
FilteredRates ==
    IF Len(peaks) < 2 THEN <<>>
    ELSE InstantRates(peaks, sampling_rate, valid_intervals)

FilteredTimes ==
    IF Len(peaks) < 2 THEN <<>>
    ELSE InstantTimes(peaks, sampling_rate, valid_intervals)

\* the returned series are the 3-sample moving average of r, each entry
\* paired with the time of the middle entry of its window
SmoothedFrom(r, t) ==
    /\ Len(heart_rates) = Len(r) - 2
    /\ Len(times) = Len(t) - 2
    /\ \A k \in 1..Len(heart_rates) :
          /\ heart_rates[k] = RatDivInt(RatAdd(RatAdd(r[k], r[k + 1]), r[k + 2]), 3)
          /\ times[k] = t[k + 1]

\* C11: the moving average is applied only when the plausibility-filtered
\* rate series has more than 3 entries (entry i is the mean of filtered
\* entries i, i+1, i+2, paired with the time of entry i+1, both series two
\* shorter); with 3 or fewer entries both series are returned unchanged
C11_SmoothingOnlyAboveThreeEntries ==
    HeartRateReturned =>
        IF Len(FilteredRates) > 3
        THEN SmoothedFrom(FilteredRates, FilteredTimes)
        ELSE heart_rates = FilteredRates /\ times = FilteredTimes

\* the part of C11 the code does provide: for the series it builds at
\* line 155, which has at least 2 entries
C11_SmoothingOfBuiltSeries ==
    (HeartRateReturned /\ Len(FilteredRates) >= 2) =>
        /\ inst_rates = FilteredRates /\ inst_times = FilteredTimes
        /\ IF Len(FilteredRates) > 3
           THEN SmoothedFrom(FilteredRates, FilteredTimes)
           ELSE heart_rates = FilteredRates /\ times = FilteredTimes

\* C12: detection makes a bounded number of find_peaks attempts: every
\* attempt is counted once, the relaxed attempt is made exactly once and
\* only after a first attempt that found zero peaks, candidates found by
\* the first attempt are used as they are, and the total never exceeds 3
C12_RelaxedAttemptOnceAfterEmptyFirst ==
    [][/\ attempts' \in 0..3
       /\ attempts' # attempts => attempts' = attempts + 1
       /\ (attempts >= 1 /\ attempts' # attempts) =>
              (attempts = 1 /\ candidates = <<>>)
       /\ (attempts = 1 /\ candidates # <<>>) =>
              (attempts' = 1 /\ candidates' = candidates)
       /\ pc = "relax" =>
              (attempts = 1 /\ candidates = <<>> /\ attempts' = 2)
       /\ attempts = 2 => (attempts' = 2 /\ candidates' = candidates)]_vars

\* the relaxed attempt was made and found peaks the first attempt missed
C12_Witness == pc = "done" /\ attempts = 2 /\ candidates # <<>>

\* C13: for every non-empty signal and every positive sampling rate,
\* detect_r_peaks returns a peak set and never raises
C13_DetectionNeverRaises ==
    (Len(ecg_signal) > 0 /\ sampling_rate > 0) => pc # "raised"

\* the part of C13 the code does provide: no raise when the refractory
\* distance int(0.4 * sampling_rate) is at least one sample, and then a
\* signal without a detectable beat is reported as the empty peak set
C13_NoRaiseAtUsableRate ==
    (Len(ecg_signal) > 0 /\ MinSamples(sampling_rate) >= 1) =>
        /\ pc # "raised"
        /\ (DetectReturned /\ candidates = <<>>) => peaks = <<>>

\* the positions (1-based) whose raw sample is the lead-off sentinel 0
LeadOffPositions == {i \in 1..Len(ecg_signal) : ecg_signal[i] = 0}

\* the positions of the smoothed signal that enter valid_data, from which
\* signal_mean and signal_std are computed
StatisticsPositions == {i \in 1..Len(smoothed) : smoothed[i] # NaN}

\* the positions (1-based) of the candidate peaks
CandidatePositions == {candidates[k] + 1 : k \in 1..Len(candidates)}

\* C14: no position whose raw sample is the lead-off sentinel contributes
\* a value to the statistics behind the threshold and the prominence, or
\* becomes a candidate peak
C14_LeadOffExcludedFromStatistics ==
    Len(smoothed) = Len(ecg_signal) =>
        /\ LeadOffPositions \cap StatisticsPositions = {}
        /\ LeadOffPositions \cap CandidatePositions = {}

\* the part of C14 the code does provide: a position is left out of the
\* statistics exactly when every sample of its smoothing window is
\* non-positive, so with a window of one sample no lead-off position
\* contributes or becomes a candidate
C14_AllLeadOffWindowsExcluded ==
    (Len(smoothed) = Len(ecg_signal) /\ Len(ecg_signal) > 0) =>
        /\ \A i \in 1..Len(ecg_signal) :
              i \in StatisticsPositions <=>
                  \E t \in 0..(WindowSize(sampling_rate) - 1) :
                      PaddedAt(ecg_signal, WindowSize(sampling_rate) \div 2,
                               i - 1 + t) > 0
        /\ WindowSize(sampling_rate) = 1 =>
              /\ LeadOffPositions \cap StatisticsPositions = {}
              /\ LeadOffPositions \cap CandidatePositions = {}

\* the returned mask is aligned with the input and marks the samples equal to 0
MaskDescribesInput ==
    /\ Len(lead_off_mask) = Len(ecg_signal)
    /\ \A i \in 1..Len(ecg_signal) : lead_off_mask[i] <=> (ecg_signal[i] = 0)

\* C15: analyze_ecg returns a lead-off mask of the length of the input
\* whose entry i is true exactly when raw sample i equals 0, and no step
\* of the call changes the caller's sample array, so the mask describes
\* the input after the call as well
C15_MaskAlignedAndInputUnchanged ==
    /\ [](pc # "analyze_ecg" => MaskDescribesInput)
    /\ [][ecg_signal' = ecg_signal]_vars

\* the call has returned for an input with lead-off samples that were
\* masked out of the working copy, and with a negative sample as well
C15_Witness ==
    /\ pc = "done"
    /\ \E i \in 1..Len(lead_off_mask) : lead_off_mask[i]
    /\ \E i \in 1..Len(ecg_signal) : ecg_signal[i] < 0
    /\ working_signal # ecg_signal
    /\ peaks # <<>>

RefinementDone == pc \in {"outlier", "heart_rate", "average", "done"}

\* index r holds the largest raw sample that is not lead-off within
\* RefineWindow samples of candidate c, the window clipped to the signal
IsWindowMaximum(r, c) ==
    LET lo == Max2(0, c - RefineWindow(sampling_rate))
        hi == Min2(Len(ecg_signal) - 1, c + RefineWindow(sampling_rate))
    IN  /\ r \in lo..hi
        /\ At(ecg_signal, r) # 0
        /\ \A j \in lo..hi :
              At(ecg_signal, j) # 0 => At(ecg_signal, j) <= At(ecg_signal, r)

\* C16: each refined peak is the index of the maximum of the original
\* signal over the non-lead-off samples within int(0.05 * sampling_rate)
\* samples of its candidate, the window clipped to the signal; no returned
\* peak points at a lead-off sample
C16_RefinedPeakIsWindowMaximum ==
    RefinementDone =>
        /\ Len(refined_peaks) = Len(candidates)
        /\ \A k \in 1..Len(refined_peaks) :
              IsWindowMaximum(refined_peaks[k], candidates[k])
        /\ \A k \in 1..Len(peaks) :
              /\ At(ecg_signal, peaks[k]) # 0
              /\ \E j \in 1..Len(refined_peaks) : refined_peaks[j] = peaks[k]

\* a candidate that sat on a lead-off sample was moved to a valid one
C16_Witness ==
    /\ pc = "done"
    /\ peaks # <<>>
    /\ \E k \in 1..Len(candidates) :
          /\ At(ecg_signal, candidates[k]) = 0
          /\ refined_peaks[k] # candidates[k]

\* load_ecg_from_csv has returned
LoadReturned == pc \notin {"load", "estimate"} /\ error = ""

\* the records a load that skips malformed records would keep: every
\* record with two parsable fields, up to the first time beyond duration
RECURSIVE KeptRows(_)
KeptRows(rs) ==
    IF rs = <<>> THEN <<>>
    ELSE IF rs[1].time.ok /\ RatGt(rs[1].time.v, duration) THEN <<>>
    ELSE IF rs[1].time.ok /\ rs[1].value.ok
    THEN <<rs[1]>> \o KeptRows(Tail(rs))
    ELSE KeptRows(Tail(rs))

LoadedIsKeptRows ==
    /\ t_loaded = [i \in 1..Len(KeptRows(rows)) |-> KeptRows(rows)[i].time.v]
    /\ ecg_loaded = [i \in 1..Len(KeptRows(rows)) |-> KeptRows(rows)[i].value.v]

\* C17: a record with an unparsable numeric field is skipped and every
\* other record is still loaded; a malformed line never aborts the load
C17_MalformedRecordIsSkipped ==
    /\ error # "ValueError"
    /\ LoadReturned => LoadedIsKeptRows

\* the part of C17 the code does provide: a load that returns has loaded
\* every record up to the first time beyond duration, and the load is
\* aborted by ValueError only at a record with an unparsable field
C17_LoadReturnsAllRecordsOrAborts ==
    /\ LoadReturned => LoadedIsKeptRows
    /\ error = "ValueError" =>
          /\ pc = "raised"
          /\ row_index < Len(rows)
          /\ ~(rows[row_index + 1].time.ok /\ rows[row_index + 1].value.ok)

\* analyze_ecg has been called by __main__
AnalysisCalled == LoadReturned /\ pc # "main"

\* C18: an empty sample sequence or a non-positive sampling rate ends the
\* load or the analysis with an error before a result is produced, and no
\* default sampling rate stands in for one that could not be estimated
C18_ConfigurationErrorsFailFast ==
    /\ pc = "done" => (ecg_signal # <<>> /\ sampling_rate > 0)
    /\ (AnalysisCalled /\ ~arg_sampling_rate.given) =>
          (Len(t_loaded) > 1 /\ sampling_rate # DefaultSamplingRate)

\* the part of C18 the code does provide: a load of no sample ends with
\* an error instead of returning, and a non-positive sampling rate ends
\* the analysis with an error when the signal has a positive sample
C18_EmptyLoadEndsWithError ==
    /\ LoadReturned => (t_loaded # <<>> /\ ecg_loaded # <<>>)
    /\ (pc = "raised" /\ t_loaded = <<>>) => error \in {"IndexError", "ValueError"}
    /\ (pc = "done" /\ sampling_rate <= 0) =>
          \A i \in 1..Len(ecg_signal) : ecg_signal[i] <= 0

\* the analysis runs at a rate estimated from at least 2 loaded samples
RateWasEstimated ==
    AnalysisCalled /\ ~arg_sampling_rate.given /\ Len(t_loaded) >= 2

\* C19: when no sampling rate is supplied, the rate used for the analysis
\* is the integer nearest to 1 / (mean interval between loaded samples)
C19_EstimatedRateIsNearestInteger ==
    RateWasEstimated =>
        LET dt == MeanDiff(t_loaded)
        IN  2 * Abs(sampling_rate * dt[1] - dt[2]) <= dt[1]

\* the part of C19 the code does provide: the rate used is 1 / (mean
\* interval) with its fraction cut off
C19_EstimatedRateIsTruncated ==
    RateWasEstimated =>
        LET dt == MeanDiff(t_loaded)
        IN  /\ dt[1] > 0
            /\ sampling_rate * dt[1] <= dt[2]
            /\ dt[2] < (sampling_rate + 1) * dt[1]

\* the number of entries averaged into one returned entry, read off a
\* result of calculate_heart_rate in which the moving average was applied
WindowUsed(res) == Len(res.irates) - Len(res.rates) + 1

\* C20: the moving-average window is governed by the window_size argument:
\* two calls on the same peaks and sampling rate that differ only in
\* window_size use windows of different lengths
C20_WindowSizeGovernsMovingAverage ==
    (HeartRateReturned /\ Len(inst_rates) > 3) =>
        \A w \in WindowSizes \ {window_size} :
            WindowUsed(CalcHeartRate(peaks, sampling_rate, w))
                # Len(inst_rates) - Len(heart_rates) + 1

\* what the code does instead: the window is 3 entries whatever the
\* window_size argument, and the result does not depend on it
C20_WindowIsThreeEntriesForEverySize ==
    HeartRateReturned =>
        /\ Len(inst_rates) > 3 => Len(inst_rates) - Len(heart_rates) + 1 = 3
        /\ \A w \in WindowSizes :
              /\ CalcHeartRate(peaks, sampling_rate, w).rates = heart_rates
              /\ CalcHeartRate(peaks, sampling_rate, w).times = times

Elements(q) == {q[i] : i \in 1..Len(q)}

\* q keeps the order of increasing indices
Increasing(q) == \A i, j \in 1..Len(q) : i < j => q[i] < q[j]

C22_SecondaryPrunedNearPrimary ==
    pc = "separated" =>
        /\ separated[1] = primary_peaks
        /\ Increasing(separated[2])
        /\ Elements(separated[2]) =
               {s \in Elements(secondary_peaks) :
                   \A p \in Elements(primary_peaks) :
                       Abs(s - p) > min_gap_samples}
        /\ Elements(separated[1]) \cap Elements(separated[2]) = {}
        /\ \A p \in Elements(separated[1]), s \in Elements(separated[2]) :
               Abs(s - p) >= min_gap_samples

\* a secondary peak exactly at the gap was pruned, one beyond it was kept
C22_Witness ==
    /\ pc = "separated"
    /\ min_gap_samples = 2
    /\ \E s \in Elements(secondary_peaks) \ Elements(separated[2]) :
           \E p \in Elements(primary_peaks) : Abs(s - p) = 2
    /\ separated[2] # <<>>
    /\ primary_peaks # <<>>

(***************************************************************************)
(* C23: load_ecg_from_csv loads exactly the records before the first        *)
(* record whose time exceeds duration, in file order: reading stops there   *)
(* and later records are ignored even if their time is <= duration; every   *)
(* loaded time is <= duration and the two arrays have equal length          *)
(***************************************************************************)
\* the for loop has ended, by exhaustion or by break (line 396 is reached)
LoopEnded == pc \notin {"load", "raised"} \/ (pc = "raised" /\ error # "ValueError")

\* the number of records before the first one whose time exceeds duration
RECURSIVE RecordsBeforeCut(_)
RecordsBeforeCut(rs) ==
    IF rs = <<>> THEN 0
    ELSE IF RatGt(rs[1].time.v, duration) THEN 0
    ELSE 1 + RecordsBeforeCut(Tail(rs))

C23_LoadsRecordsBeforeFirstLateOne ==
    LoopEnded =>
        /\ Len(t_loaded) = RecordsBeforeCut(rows)
        /\ Len(ecg_loaded) = Len(t_loaded)
        /\ \A i \in 1..Len(t_loaded) :
              /\ t_loaded[i] = rows[i].time.v
              /\ ecg_loaded[i] = rows[i].value.v
              /\ RatLe(t_loaded[i], duration)

\* a load returned the first record only: the second lies beyond duration
\* and the third, a well-formed record within duration, was not read
C23_Witness ==
    /\ pc = "main"
    /\ Len(t_loaded) = 1
    /\ Len(rows) = 3
    /\ row_index = 2
    /\ rows[3].time.ok /\ rows[3].value.ok
    /\ RatLe(rows[3].time.v, duration)

(***************************************************************************)
(* C27: the samples detect_r_peaks treats as missing are exactly the        *)
(* indices analyze_ecg flags in the returned lead-off mask, for every       *)
(* input signal, negative sample values included                            *)
(***************************************************************************)
\* detect_r_peaks has replaced the samples it treats as missing by NaN
MaskingDone == pc \notin {"analyze_ecg", "smooth"} /\ ecg_signal # <<>>

\* the positions detect_r_peaks excludes as lead-off
MissingPositions ==
    {i \in 1..Len(working_signal) : working_signal[i] = NaN}

\* the positions flagged in the lead-off mask
FlaggedPositions == {i \in 1..Len(lead_off_mask) : lead_off_mask[i]}

C27_MissingExactlyWhereFlagged ==
    MaskingDone => MissingPositions = FlaggedPositions

\* what the code does provide: every flagged sample is treated as missing,
\* and a sample treated as missing without being flagged is negative
C27_MissingIsFlaggedOrNegative ==
    MaskingDone =>
        /\ FlaggedPositions \subseteq MissingPositions
        /\ \A i \in MissingPositions \ FlaggedPositions : ecg_signal[i] < 0

(***************************************************************************)
(* C24: in both capture tools a status line (lead-off notice, connectivity  *)
(* or confirmation notice, BPM report, header, empty line) never adds a     *)
(* record: every record in the capture data, and so every row written to    *)
(* the CSV file, carries a numeric raw sample value with its elapsed time   *)
(***************************************************************************)
\* a record with the elapsed time and a numeric raw value
HasNumericSample(row) == row[1] \in 0..capture_duration /\ row[2] # None

C24_StatusLineAddsNoRecord ==
    /\ \A i \in 1..Len(data) : HasNumericSample(data[i])
    /\ \A i \in 2..Len(csv_file) : HasNumericSample(csv_file[i])

\* what the code does provide: capture_raw_data records numeric samples
\* only, and a record of capture_ecg_data without a numeric raw value is
\* the marker of a lead-off notice or a payload without rawEcg
C24_NonNumericOnlyFromLeadOffOrPayload ==
    \A i \in 1..Len(data) :
        /\ data[i][1] \in 0..capture_duration
        /\ data[i][2] = None =>
              /\ tool = "client"
              /\ data[i][5] \in {"Lead-off detected", "now"}

(***************************************************************************)
(* C25: in capture_ecg_data, Ctrl+C at any point of the read loop loses no  *)
(* data: every record captured before the interrupt is written to the CSV   *)
(* file after the header row, in capture order, and the function returns    *)
(* True if at least one record was captured                                 *)
(***************************************************************************)
InterruptedInLoop == tool = "client" /\ stopped_by = "KeyboardInterrupt"

InterruptedCaptureOutcome ==
    /\ InterruptedInLoop => pc \in {"finally", "save", "returned"}
    /\ (InterruptedInLoop /\ pc = "returned") =>
          IF data = <<>>
          THEN result = "False" /\ csv_file = <<>>
          ELSE \/ /\ saved = "written"
                  /\ result = "True"
                  /\ csv_file = <<ClientHeader>> \o data
               \/ /\ saved = "failed"
                  /\ result = "False"
                  /\ csv_file = <<>>

CaptureLeft == tool = "client" /\ pc \in {"returned", "raised"}

C26_PortClosedExactlyOnce ==
    /\ (CaptureLeft /\ port # "unopened") => (port = "closed" /\ closes = 1)
    /\ csv_file # <<>> => port = "closed"
    /\ (CaptureLeft /\ port = "unopened") =>
          (pc = "returned" /\ result = "False" /\ csv_file = <<>>)

\* what the code does provide: the same on every path that has entered
\* the try statement of the read loop
C26_PortClosedOnceAfterReadLoop ==
    /\ closes <= 1
    /\ (CaptureLeft /\ stopped_by # "") => (port = "closed" /\ closes = 1)
    /\ csv_file # <<>> => port = "closed"
    /\ (CaptureLeft /\ port = "unopened") =>
          (pc = "returned" /\ result = "False" /\ csv_file = <<>>)
    /\ (CaptureLeft /\ port = "open") =>
          (result = "KeyboardInterrupt" /\ stopped_by = "")

====
